---- MODULE Spec2Model ----
(***************************************************************************)
(* Model of sitemap-reorganizer.py: the last-modified resolution engine.   *)
(*                                                                         *)
(*   get_lastmod_from_server  one HTTP GET and the three-method date       *)
(*                            extraction, as an operator on a response     *)
(*   fetch_lastmod_dates      the ThreadPoolExecutor run: submission,      *)
(*                            worker threads, the as_completed loop        *)
(*                                                                         *)
(*   organize_urls            the categorization loop of run's step 4     *)
(*                                                                         *)
(* Four specifications share the variables:                                *)
(*   FetchSpec     applies get_lastmod_from_server to one server reply     *)
(*                 drawn from the bounded set Responses;                   *)
(*   Spec          runs fetch_lastmod_dates over a bounded URL sequence;   *)
(*   FairSpec      is Spec with the fairness the thread scheduler gives;   *)
(*   OrganizeSpec  runs organize_urls over a bounded URL sequence and a    *)
(*                 resolved dict.                                          *)
(***************************************************************************)
EXTENDS Integers, Sequences, FiniteSets, TLC

VARIABLES
    urls,            \* the input URL sequence (argument of fetch_lastmod_dates)
    fetch_lastmod,   \* self.fetch_lastmod
    max_workers,     \* self.max_workers
    pc,              \* position of the calling thread in fetch_lastmod_dates
    future_to_url,   \* future_to_url: future i (by submission order) -> its URL
    fut,             \* state, reply and outcome of each submitted future
    yielded,         \* futures the as_completed loop has already processed
    lastmod_dates,   \* the result dict
    completed,       \* the completion counter
    reports,         \* the completed values printed by the progress indicator
    httpGets,        \* number of requests.get calls issued so far
    writer,          \* history: the future whose result each dict key holds
    probe,           \* FetchSpec: the server reply under test
    probeOut,        \* FetchSpec: outcome of get_lastmod_from_server on it
    categories       \* self.categories: category -> list of (url, lastmod)

vars == <<urls, fetch_lastmod, max_workers, pc, future_to_url, fut, yielded,
          lastmod_dates, completed, reports, httpGets, writer, probe, probeOut,
          categories>>

resolverVars == <<urls, fetch_lastmod, max_workers, pc, future_to_url, fut,
                  yielded, lastmod_dates, completed, reports, httpGets, writer>>

(***************************************************************************)
(* Bounds of the model.                                                    *)
(***************************************************************************)
MaxUrls == 3        \* longest input URL sequence
MaxWorkers == 2     \* largest max_workers value (0 is included)
MaxMarkers == 2     \* most "Last Published" comments in one response body

URLS == {"https://a/x", "https://a/y"}

Range(s) == {s[k] : k \in DOMAIN s}

SeqsUpTo(S, n) == UNION {[1..k -> S] : k \in 0..n}

(***************************************************************************)
(* Dates.  A formatted date 'YYYY-MM-DD' is the triple <<year, month, day>>.*)
(***************************************************************************)
today == <<2026, 11, 2>>

WeekdayNames == {"Mon", "Tue", "Wed", "Thu", "Fri", "Sat", "Sun"}

MonthNum == [Jan |-> 1, Feb |-> 2]

\* time zone names the %Z directive matches (besides the host's own names)
TZNames == {"UTC", "GMT"}

IsLeap(y) == (y % 4 = 0 /\ y % 100 # 0) \/ y % 400 = 0

DaysIn(y, m) == IF m = 2 THEN (IF IsLeap(y) THEN 29 ELSE 28) ELSE 31

(***************************************************************************)
(* Text of a date.  The text is kept as its whitespace-separated fields:   *)
(* wd mon day year time zone, the characters following the zone name       *)
(* without a space (offset) and a trailing parenthesised suffix (paren).   *)
(* A text that is no date at all has wd = "junk".                          *)
(***************************************************************************)
DateText(wd, mon, day, year, zone, offset, paren) ==
    [wd |-> wd, mon |-> mon, day |-> day, year |-> year, time |-> "10:30:29",
     zone |-> zone, offset |-> offset, paren |-> paren]

JunkText == DateText("junk", "", 0, 0, "", "", "")

EmptyText == [DateText("", "", 0, 0, "", "", "") EXCEPT !.time = ""]

TZSuffix == "(Coordinated Universal Time)"

\* The format the comment of the source documents:
\* Wed Jan 28 2026 10:30:29 GMT+0000 (Coordinated Universal Time)
DocumentedText == DateText("Wed", "Jan", 28, 2026, "GMT", "+0000", TZSuffix)

MarkerTexts ==
    { DocumentedText,
      DateText("Wed", "Jan", 28, 2026, "GMT", "+0000", ""),
      DateText("Wed", "Jan", 28, 2026, "GMT", "", TZSuffix),
      DateText("Tue", "Jan", 27, 2026, "UTC", "", ""),
      DateText("Mon", "Feb", 30, 2026, "GMT", "", ""),
      JunkText }

\* re.sub(r'\s*\(.*?\)\s*$', '', date_str): drops the parenthesised suffix
StripParen(text) == [text EXCEPT !.paren = ""]

NoMatch == [ok |-> FALSE, year |-> 0, month |-> 0, day |-> 0]

\* A variant of the parser that tolerates characters after the zone name.
StrptimeLenient(text) ==
    IF /\ text.wd \in WeekdayNames
       /\ text.mon \in DOMAIN MonthNum
       /\ text.zone \in TZNames
       /\ text.paren = ""
       /\ text.day \in 1..DaysIn(text.year, MonthNum[text.mon])
    THEN [ok |-> TRUE, year |-> text.year, month |-> MonthNum[text.mon],
          day |-> text.day]
    ELSE NoMatch

\* datetime.strptime(text, '%a %b %d %Y %H:%M:%S %Z') and, for the header,
\* '%a, %d %b %Y %H:%M:%S %Z': every directive must match, %Z matches a zone
\* name only, nothing may remain after it, and the day must exist in the
\* month.  ok = FALSE stands for the ValueError.
Strptime(text) ==
    IF /\ text.wd \in WeekdayNames
       /\ text.mon \in DOMAIN MonthNum
       /\ text.zone \in TZNames
       /\ text.offset = ""
       /\ text.paren = ""
       /\ text.day \in 1..DaysIn(text.year, MonthNum[text.mon])
    THEN [ok |-> TRUE, year |-> text.year, month |-> MonthNum[text.mon],
          day |-> text.day]
    ELSE NoMatch

\* dt.strftime('%Y-%m-%d')
Strftime(dt) == <<dt.year, dt.month, dt.day>>

(***************************************************************************)
(* Server replies.  A reply either fails (requests.get or response.text    *)
(* raises) or carries a body and a Last-Modified header.  The body is the  *)
(* sequence, in document order, of its "<!-- Last Published: .. -->"       *)
(* comments, each with the index of the character that ends it.            *)
(***************************************************************************)
PrefixChars == 1000

MarkerEnds == {120, 1001}

Markers == [end : MarkerEnds, text : MarkerTexts]

\* response.headers.get('Last-Modified'): None when the header is absent
NoHeader == [present |-> FALSE, text |-> EmptyText]

Header(text) == [present |-> TRUE, text |-> text]

HeaderValues ==
    { NoHeader, Header(EmptyText),
      Header(DateText("Fri", "Jan", 2, 2026, "GMT", "", "")),
      Header(DateText("Fri", "Jan", 2, 2026, "", "+0000", "")),
      Header(JunkText) }

\* truth value of last_modified in "if last_modified:"
Truthy(header) == header.present /\ header.text # EmptyText

FailureClasses == {"ConnectionError", "Timeout", "MalformedResponse", "DecodeError"}

Failure(class) == [kind |-> "fail", class |-> class]

Reply(body, header) == [kind |-> "ok", body |-> body, header |-> header]

Responses ==
    {Failure(c) : c \in FailureClasses}
      \cup {Reply(b, h) : b \in SeqsUpTo(Markers, MaxMarkers), h \in HeaderValues}

Return(date) == [kind |-> "return", value |-> date]

Raise(exc) == [kind |-> "raise", exc |-> exc]

\* A fetcher that inspects the whole body instead of its first 1000 chars.
html_contentWhole(resp) == resp.body

\* response.text[:1000]: the comments that lie wholly in the first 1000 chars
html_content(resp) ==
    SelectSeq(resp.body, LAMBDA m : m.end <= PrefixChars)

\* re.search(r'<!-- Last Published: (.+?) -->', html_content): leftmost match
HasMatch(resp) == Len(html_content(resp)) > 0

MatchGroup(resp) == html_content(resp)[1].text

\* A fetcher whose inner except clause gives up: a comment that is found but
\* does not parse ends the call with today, the header is not consulted.
MethodsAbortOnParseFailure(resp) ==
    IF resp.kind = "fail" THEN Raise(resp.class)
    ELSE
      LET m1 == IF HasMatch(resp) THEN Strptime(StripParen(MatchGroup(resp)))
                ELSE NoMatch
      IN  IF m1.ok THEN Return(Strftime(m1))
          ELSE IF HasMatch(resp) THEN Return(today)
          ELSE IF Truthy(resp.header)
               THEN LET m2 == Strptime(resp.header.text)
                    IN  IF m2.ok THEN Return(Strftime(m2))
                        ELSE Raise("ValueError")
               ELSE Return(today)

\* A fetcher without the final "return self.today": a reply with no usable
\* comment and no header value yields no date.
MethodsNoFallback(resp) ==
    IF resp.kind = "fail" THEN Raise(resp.class)
    ELSE
      LET m1 == IF HasMatch(resp) THEN Strptime(StripParen(MatchGroup(resp)))
                ELSE NoMatch
      IN  IF m1.ok THEN Return(Strftime(m1))
          ELSE IF Truthy(resp.header)
               THEN LET m2 == Strptime(resp.header.text)
                    IN  IF m2.ok THEN Return(Strftime(m2))
                        ELSE Raise("ValueError")
               ELSE Return(<<0, 0, 0>>)

\* Lines 110-136 without the enclosing try: the three methods in order.
Methods(resp) ==
    IF resp.kind = "fail" THEN Raise(resp.class)
    ELSE
      LET m1 == IF HasMatch(resp) THEN Strptime(StripParen(MatchGroup(resp)))
                ELSE NoMatch
      IN  IF m1.ok THEN Return(Strftime(m1))
          ELSE IF Truthy(resp.header)
               THEN LET m2 == Strptime(resp.header.text)
                    IN  IF m2.ok THEN Return(Strftime(m2))
                        ELSE Raise("ValueError")
               ELSE Return(today)

\* A variant whose handler catches requests' own exceptions only.
CatchRequestErrorsOnly(out) ==
    IF out.kind = "raise" /\ out.exc \in {"ConnectionError", "Timeout"}
    THEN Return(today) ELSE out

\* except Exception: return self.today (lines 138-140)
CatchAll(out) == IF out.kind = "raise" THEN Return(today) ELSE out

get_lastmod_from_server(resp) == CatchAll(Methods(resp))

(***************************************************************************)
(* Categorization.  urlparse(url) is kept as the host and the path, each   *)
(* cut into pieces at the ends of the literals the rules compare with, so  *)
(* that startswith is a prefix test and "in" a membership test on pieces.  *)
(***************************************************************************)
CategoryNames == {"blog", "pages", "wa-templates", "case-studies", "integrations",
                  "server"}

\* self.categories of a new SitemapReorganizer
FreshCategories == [c \in CategoryNames |-> <<>>]

SiteURLS ==
    { "https://app.quickreply.ai/login",
      "https://www.quickreply.ai/case-study/acme",
      "https://www.quickreply.ai/integrations/shopify",
      "https://www.quickreply.ai/blog/whatsapp-template-ideas",
      "https://www.quickreply.ai/whatsapp-automation-tool",
      "https://www.quickreply.ai/whatsapp-automation-tools",
      "https://www.quickreply.ai/pricing" }

Www == <<"www.quickreply.ai">>

urlparse(url) ==
    CASE url = "https://app.quickreply.ai/login" ->
            [netloc |-> <<"app.quickreply.ai">>, path |-> <<"/login">>]
      [] url = "https://www.quickreply.ai/case-study/acme" ->
            [netloc |-> Www, path |-> <<"/case-stud", "y", "/acme">>]
      [] url = "https://www.quickreply.ai/integrations/shopify" ->
            [netloc |-> Www, path |-> <<"/integrations", "/shopify">>]
      [] url = "https://www.quickreply.ai/blog/whatsapp-template-ideas" ->
            [netloc |-> Www, path |-> <<"/blog", "/whatsapp-template", "-ideas">>]
      [] url = "https://www.quickreply.ai/whatsapp-automation-tool" ->
            [netloc |-> Www, path |-> <<"/whatsapp-automation", "-tool">>]
      [] url = "https://www.quickreply.ai/whatsapp-automation-tools" ->
            [netloc |-> Www, path |-> <<"/whatsapp-automation", "-tool", "s">>]
      [] OTHER ->
            [netloc |-> Www, path |-> <<"/pricing">>]

blog_prefixes ==
    { <<"/whatsapp-chatbots">>, <<"/whatsapp-automation">>, <<"/whatsapp-marketing">>,
      <<"/click-to-whatsapp-ads">>, <<"/whatsapp-api">>, <<"/whatsapp-bulk-messaging">>,
      <<"/whatsapp-retargetings">>, <<"/whatsapp-drip-campaigns">>,
      <<"/whatsapp-catalog">>, <<"/whatsapp-integrations">>, <<"/others">>,
      <<"/blog">>, <<"/blog", "s">> }

force_pages_urls ==
    { <<"/whatsapp-automation", "-tool">>,
      <<"/whatsapp-marketing", "-software", "-2">>,
      <<"/whatsapp-marketing", "-software">>,
      <<"/whatsapp-marketing", "-automation">>,
      <<"/whatsapp-automation", "-for-business">> }

\* path.startswith(prefix)
StartsWith(path, prefix) ==
    Len(path) >= Len(prefix) /\ SubSeq(path, 1, Len(prefix)) = prefix

\* categorize_url: the rules in the order of the source, first match wins
categorize_url(url) ==
    LET parsed == urlparse(url)
        path == parsed.path
    IN  IF "app.quickreply.ai" \in Range(parsed.netloc) THEN "server"
        ELSE IF StartsWith(path, <<"/case-stud", "ies">>)
                  \/ StartsWith(path, <<"/case-stud", "y">>) THEN "case-studies"
        ELSE IF StartsWith(path, <<"/integrations">>) THEN "integrations"
        ELSE IF "/whatsapp-template" \in Range(path) THEN "wa-templates"
        ELSE IF \E forced_path \in force_pages_urls : path = forced_path THEN "pages"
        ELSE IF \E prefix \in blog_prefixes : StartsWith(path, prefix) THEN "blog"
        ELSE "pages"

\* A lookup that ignores the resolved dict.
LookupToday(dates, url) == today

\* lastmod_dates.get(url, self.today)
Lookup(dates, url) == IF url \in DOMAIN dates THEN dates[url] ELSE today

(***************************************************************************)
(* FetchSpec: get_lastmod_from_server applied to one reply.                *)
(***************************************************************************)
Pending == [kind |-> "pending"]

IdleResolver ==
    /\ urls = <<>>
    /\ fetch_lastmod = TRUE
    /\ max_workers = 1
    /\ pc = "idle"
    /\ future_to_url = <<>>
    /\ fut = <<>>
    /\ yielded = {}
    /\ lastmod_dates = <<>>
    /\ completed = 0
    /\ reports = <<>>
    /\ httpGets = 0
    /\ writer = <<>>
    /\ categories = FreshCategories

FetchInit ==
    /\ IdleResolver
    /\ probe \in Responses
    /\ probeOut = Pending

Fetch ==
    /\ probeOut = Pending
    /\ probeOut' = get_lastmod_from_server(probe)
    /\ httpGets' = httpGets + 1
    /\ UNCHANGED <<urls, fetch_lastmod, max_workers, pc, future_to_url, fut,
                   yielded, lastmod_dates, completed, reports, writer, probe,
                   categories>>

FetchNext == Fetch

FetchSpec == FetchInit /\ [][FetchNext]_vars

(***************************************************************************)
(* Spec: fetch_lastmod_dates.                                              *)
(*                                                                         *)
(* pc = "call"     the method has been called, nothing executed yet        *)
(*      "submit"   inside the dict comprehension that submits the tasks    *)
(*      "collect"  inside the as_completed loop                            *)
(*      "returned" the method has returned lastmod_dates                   *)
(*      "raised"   the method has ended with an exception                  *)
(***************************************************************************)
ProgressEvery == 50

\* Replies the pool's fetches receive: a timeout, a reply with a dated
\* Last-Modified header and a reply with a dated comment.
PoolResponses ==
    { Failure("Timeout"),
      Reply(<<>>, Header(DateText("Fri", "Jan", 2, 2026, "GMT", "", ""))),
      Reply(<<[end |-> 120, text |-> DateText("Tue", "Jan", 27, 2026, "UTC", "", "")]>>,
            NoHeader) }

total == Len(urls)

Futures == DOMAIN fut

InState(st) == {i \in Futures : fut[i].st = st}

\* URLs are opaque keys to fetch_lastmod_dates, so of two inputs that differ
\* only by exchanging the two URLs one is kept: the one that starts with the
\* first URL.
Init ==
    /\ urls \in SeqsUpTo(URLS, MaxUrls)
    /\ (urls # <<>> => urls[1] = "https://a/x")
    /\ fetch_lastmod \in BOOLEAN
    /\ max_workers \in 0..MaxWorkers
    /\ pc = "call"
    /\ future_to_url = <<>>
    /\ fut = <<>>
    /\ yielded = {}
    /\ lastmod_dates = <<>>
    /\ completed = 0
    /\ reports = <<>>
    /\ httpGets = 0
    /\ writer = <<>>
    /\ probe = Failure("Timeout")
    /\ probeOut = Pending
    /\ categories = FreshCategories

\* A fast path that stamps a date other than the run's today.
FastPathEpoch == [u \in Range(urls) |-> <<1970, 1, 1>>]

\* {url: self.today for url in urls}
FastPathDict == [u \in Range(urls) |-> today]

\* if not self.fetch_lastmod: return {url: self.today for url in urls}
SkipFetch ==
    /\ pc = "call"
    /\ ~fetch_lastmod
    /\ lastmod_dates' = FastPathDict
    /\ pc' = "returned"
    /\ UNCHANGED <<urls, fetch_lastmod, max_workers, future_to_url, fut, yielded,
                   completed, reports, httpGets, writer, probe, probeOut, categories>>

\* lastmod_dates = {}; completed = 0; total = len(urls);
\* ThreadPoolExecutor(max_workers=self.max_workers), which raises ValueError
\* ("max_workers must be greater than 0") for a value below 1.
EnterPool ==
    /\ pc = "call"
    /\ fetch_lastmod
    /\ pc' = IF max_workers <= 0 THEN "raised" ELSE "submit"
    /\ UNCHANGED <<urls, fetch_lastmod, max_workers, future_to_url, fut, yielded,
                   lastmod_dates, completed, reports, httpGets, writer, probe,
                   probeOut, categories>>

RECURSIVE FirstOccurrences(_)
FirstOccurrences(s) ==
    IF s = <<>> THEN <<>>
    ELSE LET front == FirstOccurrences(SubSeq(s, 1, Len(s) - 1))
         IN  IF s[Len(s)] \in Range(front) THEN front
             ELSE Append(front, s[Len(s)])

\* A comprehension that submits one task per distinct URL.
ToSubmitDistinct == FirstOccurrences(urls)

\* "for url in urls" of the comprehension: one task per element of the input
ToSubmit == urls

\* executor.submit(self.get_lastmod_from_server, url) for the next url: a new
\* future, queued behind the earlier ones.
Submit ==
    /\ pc = "submit"
    /\ Len(future_to_url) < Len(ToSubmit)
    /\ future_to_url' = Append(future_to_url, ToSubmit[Len(future_to_url) + 1])
    /\ fut' = Append(fut, [st |-> "PENDING"])
    /\ UNCHANGED <<urls, fetch_lastmod, max_workers, pc, yielded, lastmod_dates,
                   completed, reports, httpGets, writer, probe, probeOut, categories>>

\* the comprehension is exhausted; as_completed(future_to_url) starts
BeginCollect ==
    /\ pc = "submit"
    /\ Len(future_to_url) = Len(ToSubmit)
    /\ pc' = "collect"
    /\ UNCHANGED <<urls, fetch_lastmod, max_workers, future_to_url, fut, yielded,
                   lastmod_dates, completed, reports, httpGets, writer, probe,
                   probeOut, categories>>

\* A pool that starts a thread for every queued item.
UnboundedSlot == TRUE

\* The executor starts at most max_workers threads and each runs one work
\* item at a time.
FreeSlot == Cardinality(InState("RUNNING")) < max_workers

\* A worker thread takes the oldest queued work item and calls
\* get_lastmod_from_server, which issues requests.get(url, timeout=10).
StartTask(i) ==
    /\ i \in InState("PENDING")
    /\ \A j \in InState("PENDING") : i <= j
    /\ FreeSlot
    /\ fut' = [fut EXCEPT ![i] = [st |-> "RUNNING"]]
    /\ httpGets' = httpGets + 1
    /\ UNCHANGED <<urls, fetch_lastmod, max_workers, pc, future_to_url, yielded,
                   lastmod_dates, completed, reports, writer, probe, probeOut, categories>>

\* The GET ends (reply, error or timeout); get_lastmod_from_server returns and
\* the worker stores the outcome in the future.
FinishTask(i) ==
    /\ i \in InState("RUNNING")
    /\ \E r \in PoolResponses :
          fut' = [fut EXCEPT ![i] = [st |-> "FINISHED", resp |-> r,
                                     out |-> get_lastmod_from_server(r)]]
    /\ UNCHANGED <<urls, fetch_lastmod, max_workers, pc, future_to_url, yielded,
                   lastmod_dates, completed, reports, httpGets, writer, probe,
                   probeOut, categories>>

\* The submitted callable is looked up on self at submit time, so a subclass
\* or an instrumented fetcher may end with an exception; the worker stores it
\* in the future and future.result() re-raises it in the loop.
TaskFault(i) ==
    /\ i \in InState("RUNNING")
    /\ fut' = [fut EXCEPT ![i] = [st |-> "FINISHED", resp |-> Failure("Fault"),
                                  out |-> Raise("Exception")]]
    /\ UNCHANGED <<urls, fetch_lastmod, max_workers, pc, future_to_url, yielded,
                   lastmod_dates, completed, reports, httpGets, writer, probe,
                   probeOut, categories>>

\* A loop without the except clause: the exception leaves the method.
Unhandled(out) == out.kind = "raise"

\* try: lastmod = future.result() ... except Exception: every exception that
\* future.result() raises is handled in the loop, none leaves it.
Escapes(out) == FALSE

\* An except clause that leaves the entry at a date other than today.
RecordedStale(out) == IF out.kind = "return" THEN out.value ELSE <<1970, 1, 1>>

\* The value the loop body stores for a future's outcome:
\* lastmod_dates[url] = lastmod, or self.today in the except clause.
Recorded(out) == IF out.kind = "return" THEN out.value ELSE today

\* A loop that pairs results with URLs in the order the futures complete.
UrlByArrival(i) == urls[Cardinality(yielded) + 1]

\* url = future_to_url[future]
UrlOf(i) == future_to_url[i]

\* A loop that adds no entry for a future that raised.
NewKeysSkipFailed(i) ==
    IF fut[i].out.kind = "return"
    THEN DOMAIN lastmod_dates \cup {future_to_url[i]}
    ELSE DOMAIN lastmod_dates

\* A loop that builds a fresh dict in every iteration.
NewKeysReset(i) == {future_to_url[i]}

\* Keys of the dict after lastmod_dates[url] = ... with url = future_to_url[future]
NewKeys(i) == DOMAIN lastmod_dates \cup {UrlOf(i)}

\* A loop that counts a failed future twice (once in the try, once in the
\* except clause).
CountedTwice(out) == IF out.kind = "return" THEN completed + 1 ELSE completed + 2

\* A loop that counts the successful futures only.
CountedOnSuccess(out) == IF out.kind = "return" THEN completed + 1 ELSE completed

\* completed += 1, in the try and in the except clause
Counted(out) == completed + 1

\* if completed % 50 == 0 or completed == total: print(...) -- inside the try
Progress(out, n) ==
    IF out.kind = "return" /\ (n % ProgressEvery = 0 \/ n = total)
    THEN Append(reports, n) ELSE reports

\* One iteration of "for future in as_completed(future_to_url)": the loop
\* receives a finished future it has not received before.
Collect(i) ==
    /\ pc = "collect"
    /\ i \in InState("FINISHED") \ yielded
    /\ yielded' = yielded \cup {i}
    /\ IF Escapes(fut[i].out)
       THEN /\ pc' = "raised"
            /\ UNCHANGED <<lastmod_dates, completed, reports, writer>>
       ELSE /\ pc' = pc
            /\ lastmod_dates' =
                  [u \in NewKeys(i) |->
                     IF u = UrlOf(i) THEN Recorded(fut[i].out)
                     ELSE lastmod_dates[u]]
            /\ writer' =
                  [u \in NewKeys(i) |->
                     IF u = UrlOf(i) THEN i ELSE writer[u]]
            /\ completed' = Counted(fut[i].out)
            /\ reports' = Progress(fut[i].out, completed')
    /\ UNCHANGED <<urls, fetch_lastmod, max_workers, future_to_url, fut, httpGets,
                   probe, probeOut, categories>>

\* A loop that is left after the first future it receives.
ExhaustedEarly == yielded # {} \/ total = 0

\* as_completed has yielded every future of future_to_url
Exhausted == yielded = DOMAIN future_to_url

\* The loop ends, the with block shuts the executor down (shutdown(wait=True):
\* every queued and running work item has ended) and the method returns
\* lastmod_dates.
ExitPool ==
    /\ pc = "collect"
    /\ Exhausted
    /\ InState("PENDING") \cup InState("RUNNING") = {}
    /\ pc' = "returned"
    /\ UNCHANGED <<urls, fetch_lastmod, max_workers, future_to_url, fut, yielded,
                   lastmod_dates, completed, reports, httpGets, writer, probe,
                   probeOut, categories>>

MainThread == \/ SkipFetch
              \/ EnterPool
              \/ Submit
              \/ BeginCollect
              \/ \E i \in Futures : Collect(i)
              \/ ExitPool

Workers == \/ \E i \in Futures : StartTask(i)
           \/ \E i \in Futures : FinishTask(i)
           \/ \E i \in Futures : TaskFault(i)

Next == MainThread \/ Workers

Spec == Init /\ [][Next]_vars

\* The calling thread and the worker threads are scheduled, and every GET
\* ends (timeout=10).
FairSpec == Spec /\ WF_vars(MainThread) /\ WF_vars(Workers)

(***************************************************************************)
(* OrganizeSpec: step 4 of run, organize_urls(urls, lastmod_dates), on a   *)
(* fresh reorganizer, with the dict that step 3 returned: a date for every *)
(* URL of the input.                                                       *)
(*                                                                         *)
(* pc = "organize"   inside the loop "for url in urls"                     *)
(*      "organized"  organize_urls has returned                            *)
(***************************************************************************)
ResolvedDates == {today, <<2026, 1, 2>>}

EntriesIn(c) == Len(categories[c])

\* number of loop iterations made, one append each
organized ==
    EntriesIn("blog") + EntriesIn("pages") + EntriesIn("wa-templates")
      + EntriesIn("case-studies") + EntriesIn("integrations") + EntriesIn("server")

OrganizeInit ==
    /\ urls \in SeqsUpTo(SiteURLS, MaxUrls)
    /\ lastmod_dates \in [Range(urls) -> ResolvedDates]
    /\ categories = FreshCategories
    /\ pc = "organize"
    /\ fetch_lastmod = TRUE
    /\ max_workers = 1
    /\ future_to_url = <<>>
    /\ fut = <<>>
    /\ yielded = {}
    /\ completed = 0
    /\ reports = <<>>
    /\ httpGets = 0
    /\ writer = <<>>
    /\ probe = Failure("Timeout")
    /\ probeOut = Pending

\* category = self.categorize_url(url); lastmod = lastmod_dates.get(url,
\* self.today); self.categories[category].append((url, lastmod))
OrganizeUrl ==
    /\ pc = "organize"
    /\ organized < Len(urls)
    /\ LET url == urls[organized + 1]
           category == categorize_url(url)
       IN  categories' =
              [categories EXCEPT
                 ![category] = Append(@, <<url, Lookup(lastmod_dates, url)>>)]
    /\ UNCHANGED <<urls, fetch_lastmod, max_workers, pc, future_to_url, fut,
                   yielded, lastmod_dates, completed, reports, httpGets, writer,
                   probe, probeOut>>

\* the loop is exhausted: the summary is printed and organize_urls returns
OrganizeDone ==
    /\ pc = "organize"
    /\ organized = Len(urls)
    /\ pc' = "organized"
    /\ UNCHANGED <<urls, fetch_lastmod, max_workers, future_to_url, fut, yielded,
                   lastmod_dates, completed, reports, httpGets, writer, probe,
                   probeOut, categories>>

OrganizeNext == OrganizeUrl \/ OrganizeDone

OrganizeSpec == OrganizeInit /\ [][OrganizeNext]_vars

(***************************************************************************)
(* Properties of fetch_lastmod_dates (checked under Spec and FairSpec).    *)
(***************************************************************************)
Returned == pc = "returned"

Dates == {today} \cup {get_lastmod_from_server(r).value : r \in PoolResponses}

HasDuplicates == Cardinality(Range(urls)) < Len(urls)

\* the date of the reply future i received, computed from that reply alone
OwnDate(i) == get_lastmod_from_server(fut[i].resp).value

FetchFailed(i) == fut[i].st = "FINISHED" /\ fut[i].resp.kind = "fail"

\* C1 (totality): whenever fetch_lastmod_dates has returned, for either value
\* of fetch_lastmod and any input (empty, with or without duplicates), the
\* keys of the returned dict are exactly the distinct URLs of the input and
\* each key holds one date.
C1_Totality ==
    Returned =>
        /\ DOMAIN lastmod_dates = Range(urls)
        /\ \A u \in Range(urls) : lastmod_dates[u] \in Dates

C1_Witness ==
    /\ Returned
    /\ fetch_lastmod
    /\ HasDuplicates
    /\ \E i \in Futures : fut[i].out.kind = "raise"

\* C2 as stated: the number of entries of the returned dict equals the length
\* of the input sequence, duplicates included.
C2_SizeEqualsLength ==
    Returned => Cardinality(DOMAIN lastmod_dates) = Len(urls)

\* C2 (amended): the number of entries of the returned dict equals the number
\* of distinct URLs of the input, which is the length of the input exactly
\* when no URL occurs twice.
C2_SizeEqualsDistinct ==
    Returned =>
        /\ Cardinality(DOMAIN lastmod_dates) = Cardinality(Range(urls))
        /\ (Cardinality(DOMAIN lastmod_dates) = Len(urls)) <=> ~HasDuplicates

C2_Witness ==
    /\ Returned
    /\ fetch_lastmod
    /\ Len(urls) = 3
    /\ Cardinality(DOMAIN lastmod_dates) = 2

\* C3 (disabled fast path): with fetch_lastmod false no task is ever
\* submitted and no GET is ever issued, and the returned dict maps every URL
\* of the input to today.
C3_DisabledFastPath ==
    ~fetch_lastmod =>
        /\ httpGets = 0
        /\ future_to_url = <<>>
        /\ fut = <<>>
        /\ Returned => \A u \in Range(urls) :
                          u \in DOMAIN lastmod_dates /\ lastmod_dates[u] = today

C3_Witness == Returned /\ ~fetch_lastmod /\ Len(urls) >= 2

\* C4 as stated: on return, the URL of every fetch that raised or timed out
\* is mapped to today.
C4_FailingUrlIsToday ==
    (Returned /\ fetch_lastmod) =>
        \A i \in Futures :
            FetchFailed(i) => lastmod_dates[future_to_url[i]] = today

\* C4 (amended): a failed fetch does not end the call by an exception, and on
\* return every URL holds the outcome of the attempt collected last for that
\* same URL: today if that attempt's fetch failed, otherwise the date of that
\* attempt's own reply, whatever happened to the other fetches.  Hence a
\* failing URL is mapped to today unless a later-collected attempt for the
\* same (duplicated) URL succeeded.
C4_FaultIsolation ==
    /\ (pc = "raised" => max_workers <= 0)
    /\ (Returned /\ fetch_lastmod) =>
          \A u \in Range(urls) :
              /\ u \in DOMAIN writer
              /\ writer[u] \in yielded
              /\ future_to_url[writer[u]] = u
              /\ lastmod_dates[u] =
                    IF FetchFailed(writer[u]) THEN today ELSE OwnDate(writer[u])

C4_Witness ==
    /\ Returned
    /\ fetch_lastmod
    /\ ~HasDuplicates
    /\ \E i, j \in Futures :
          /\ FetchFailed(i)
          /\ lastmod_dates[future_to_url[i]] = today
          /\ ~FetchFailed(j)
          /\ lastmod_dates[future_to_url[j]] # today

\* C5 (concurrency bound): in every reachable state the number of
\* get_lastmod_from_server calls that have started and not returned is at
\* most max_workers.
C5_ConcurrencyBound == Cardinality(InState("RUNNING")) <= max_workers

C5_Witness ==
    /\ max_workers >= 1
    /\ Cardinality(InState("RUNNING")) = max_workers
    /\ InState("PENDING") # {}

\* C6 (no early return): when the enabled call has returned, one task was
\* submitted per input element, every task has finished, the loop has
\* received every future and the dict holds an entry for its URL.
C6_NoEarlyReturn ==
    (Returned /\ fetch_lastmod) =>
        /\ Len(fut) = Len(urls)
        /\ \A i \in Futures :
              /\ fut[i].st = "FINISHED"
              /\ i \in yielded
              /\ future_to_url[i] \in DOMAIN lastmod_dates
        /\ completed = Len(urls)

C6_Witness == Returned /\ fetch_lastmod /\ Len(urls) = 3 /\ max_workers = 1

\* C7 as stated: for every max_workers value the call eventually returns.
C7_AlwaysReturns == <>Returned

\* C7 (amended): for every input and every max_workers >= 1 (or with
\* fetching disabled), under fair scheduling the call eventually returns a
\* dict over the input's URLs, and it never ends with an exception.
C7_RunCompletes ==
    /\ []((fetch_lastmod => max_workers >= 1) => pc # "raised")
    /\ (fetch_lastmod => max_workers >= 1) =>
          <>(Returned /\ DOMAIN lastmod_dates = Range(urls))

C7_Witness ==
    /\ Returned
    /\ fetch_lastmod
    /\ max_workers = 1
    /\ Len(urls) = 3
    /\ \E i \in Futures : FetchFailed(i)

\* C8 (task-level failure absorption): a future that yields an exception is
\* counted as completed, its URL gets today (until a later future of the same
\* URL overwrites it), the exception does not leave the loop, and the loop
\* goes on to receive every other future.
C8_TaskFailureAbsorbed ==
    /\ completed = Cardinality(yielded)
    /\ (pc = "raised" => yielded = {})
    /\ \A i \in yielded :
          fut[i].out.kind = "raise" =>
              /\ future_to_url[i] \in DOMAIN lastmod_dates
              /\ writer[future_to_url[i]] = i =>
                    lastmod_dates[future_to_url[i]] = today
    /\ (Returned /\ fetch_lastmod) => yielded = DOMAIN urls

C8_Witness ==
    /\ Returned
    /\ \E i, j \in yielded :
          /\ fut[i].out.kind = "raise"
          /\ writer[future_to_url[i]] = i
          /\ fut[j].out.kind = "return"
          /\ writer[future_to_url[j]] = j
          /\ lastmod_dates[future_to_url[j]] # today

(***************************************************************************)
(* Properties of get_lastmod_from_server (checked under FetchSpec).        *)
(***************************************************************************)
Fetched == probeOut # Pending

\* C9 (the fetcher never raises): for every reply the call returns a value
\* and raises nothing, and for every failure class of the GET or of reading
\* and decoding the reply that value is today.
C9_FetcherNeverRaises ==
    Fetched =>
        /\ probeOut.kind = "return"
        /\ probe.kind = "fail" => probeOut = Return(today)

C9_Witness == Fetched /\ probe = Failure("DecodeError")

\* a text in the documented format: weekday month day year time, GMT followed
\* by a numeric offset, with or without the parenthesised zone name
IsDocumentedFormat(text) ==
    /\ text.wd \in WeekdayNames
    /\ text.mon \in DOMAIN MonthNum
    /\ text.day \in 1..DaysIn(text.year, MonthNum[text.mon])
    /\ text.zone = "GMT"
    /\ text.offset = "+0000"

DateOf(text) == <<text.year, MonthNum[text.mon], text.day>>

ValidHeader(header) == Truthy(header) /\ Strptime(header.text).ok

\* C10 (strategy priority): when the comment found in the first 1000
\* characters is a valid marker in the documented format and the reply also
\* has a valid Last-Modified header of another date, the call returns the
\* marker's date.
C10_StrategyPriority ==
    ( /\ Fetched
      /\ probe.kind = "ok"
      /\ HasMatch(probe)
      /\ IsDocumentedFormat(MatchGroup(probe))
      /\ ValidHeader(probe.header)
      /\ DateOf(probe.header.text) # DateOf(MatchGroup(probe)) )
    => probeOut = Return(DateOf(MatchGroup(probe)))

\* an HTTP-date (RFC 1123): Ddd, DD Mon YYYY HH:MM:SS GMT
IsHttpDate(text) ==
    /\ text.wd \in WeekdayNames
    /\ text.mon \in DOMAIN MonthNum
    /\ text.day \in 1..DaysIn(text.year, MonthNum[text.mon])
    /\ text.zone = "GMT"
    /\ text.offset = ""
    /\ text.paren = ""

\* no "Last Published" comment lies in the first 1000 characters of the body
NoMarkerInPrefix(resp) == \A k \in DOMAIN resp.body : resp.body[k].end > PrefixChars

\* C11 (header fallback): when the inspected prefix of the body holds no Last
\* Published comment and the reply has a Last-Modified header in valid
\* HTTP-date format, the call returns the date of that header.
C11_HeaderFallback ==
    ( /\ Fetched
      /\ probe.kind = "ok"
      /\ NoMarkerInPrefix(probe)
      /\ probe.header.present
      /\ IsHttpDate(probe.header.text) )
    => probeOut = Return(DateOf(probe.header.text))

\* the case is taken with a parseable comment lying beyond the prefix
C11_Witness ==
    /\ Fetched
    /\ probe.kind = "ok"
    /\ NoMarkerInPrefix(probe)
    /\ \E k \in DOMAIN probe.body : Strptime(probe.body[k].text).ok
    /\ probe.header.present
    /\ IsHttpDate(probe.header.text)
    /\ probeOut = Return(<<2026, 1, 2>>)

\* C12 (total fallback): when the prefix holds no comment and the
\* Last-Modified header is absent or empty, or its value fails to parse, the
\* call returns exactly today: no other date and no exception.
C12_TotalFallback ==
    ( /\ Fetched
      /\ probe.kind = "ok"
      /\ NoMarkerInPrefix(probe)
      /\ ~ValidHeader(probe.header) )
    => probeOut = Return(today)

C12_Witness ==
    /\ Fetched
    /\ probe.kind = "ok"
    /\ NoMarkerInPrefix(probe)
    /\ probe.header = Header(JunkText)
    /\ probeOut = Return(today)

\* C13 (reference example): a reply whose comment is
\* "Wed Jan 28 2026 10:30:29 GMT+0000 (Coordinated Universal Time)" resolves
\* to 2026-01-28, and a reply with no comment and the header
\* "Fri, 02 Jan 2026 00:00:00 GMT" resolves to 2026-01-02.
C13_ReferenceExample ==
    Fetched =>
        /\ ( /\ probe.kind = "ok"
             /\ HasMatch(probe)
             /\ MatchGroup(probe) = DocumentedText
             /\ probe.header = NoHeader )
           => probeOut = Return(<<2026, 1, 28>>)
        /\ ( /\ probe.kind = "ok"
             /\ probe.body = <<>>
             /\ probe.header = Header(DateText("Fri", "Jan", 2, 2026, "GMT", "", "")) )
           => probeOut = Return(<<2026, 1, 2>>)

\* C14 (fall-through): when a comment is found in the prefix but its text
\* does not parse, the call goes on to the header: with a valid
\* Last-Modified header it returns the header's date, neither today nor an
\* exception.
C14_FallThrough ==
    ( /\ Fetched
      /\ probe.kind = "ok"
      /\ HasMatch(probe)
      /\ ~Strptime(StripParen(MatchGroup(probe))).ok
      /\ probe.header.present
      /\ IsHttpDate(probe.header.text) )
    => probeOut = Return(DateOf(probe.header.text))

C14_Witness ==
    /\ Fetched
    /\ probe.kind = "ok"
    /\ HasMatch(probe)
    /\ MatchGroup(probe) = JunkText
    /\ probe.header.present
    /\ IsHttpDate(probe.header.text)
    /\ probeOut = Return(<<2026, 1, 2>>)

(***************************************************************************)
(* Further properties of fetch_lastmod_dates (checked under Spec).         *)
(***************************************************************************)
\* the date attempt i stands for: today if its future raised, otherwise the
\* date of the reply that attempt received
AttemptDate(i) == IF fut[i].out.kind = "raise" THEN today ELSE OwnDate(i)

Occurrences(u) == {k \in DOMAIN urls : urls[k] = u}

AttemptsFor(u) == {i \in DOMAIN future_to_url : future_to_url[i] = u}

\* the step receives future i from as_completed
Receives(i) == i \notin yielded /\ yielded' = yielded \cup {i}

\* C15 (no lost updates): under every interleaving the counter equals the
\* number of futures received, never exceeds the number of submitted tasks and
\* equals it at return; every step that touches the counter or the dict
\* receives exactly one future, adds exactly one to the counter and writes
\* exactly that future's entry, leaving the other entries as they were.
C15_NoLostUpdates ==
    /\ [](fetch_lastmod =>
            /\ completed = Cardinality(yielded)
            /\ completed <= Len(future_to_url)
            /\ \A i \in yielded : future_to_url[i] \in DOMAIN lastmod_dates
            /\ Returned => completed = Len(future_to_url) /\ completed = Len(urls))
    /\ [][ (fetch_lastmod /\ (completed' # completed
                               \/ lastmod_dates' # lastmod_dates
                               \/ yielded' # yielded))
           => \E i \in Futures :
                 /\ Receives(i)
                 /\ completed' = completed + 1
                 /\ DOMAIN lastmod_dates' = DOMAIN lastmod_dates \cup {future_to_url[i]}
                 /\ lastmod_dates'[future_to_url[i]] = AttemptDate(i)
                 /\ \A u \in DOMAIN lastmod_dates \ {future_to_url[i]} :
                       lastmod_dates'[u] = lastmod_dates[u] ]_vars

C15_Witness ==
    /\ Returned
    /\ fetch_lastmod
    /\ max_workers = 2
    /\ completed = 3
    /\ \E i \in yielded : fut[i].out.kind = "raise"

\* C16 (order-insensitivity): for an input of distinct URLs, whatever the
\* order in which the futures complete and are received, the entry of each
\* received future's URL is the outcome of the task submitted for that same
\* URL, so the returned dict is a function of the per-URL outcomes alone.
C16_OrderInsensitive ==
    (fetch_lastmod /\ ~HasDuplicates) =>
        /\ \A i \in yielded :
              /\ future_to_url[i] = urls[i]
              /\ urls[i] \in DOMAIN lastmod_dates
              /\ lastmod_dates[urls[i]] = AttemptDate(i)
        /\ Returned => yielded = DOMAIN urls

\* the second task is received while the first is still running
C16_Witness ==
    /\ fetch_lastmod
    /\ ~HasDuplicates
    /\ Len(urls) = 2
    /\ yielded = {2}
    /\ fut[1].st = "RUNNING"
    /\ lastmod_dates[urls[2]] = <<2026, 1, 27>>

\* C17 (no deduplication): with fetching enabled future i is the task of
\* input element i and every started task issues one GET; at return a URL that
\* occurs k times has had k tasks and k GETs; every received attempt
\* overwrites the entry of its own URL, so at return the entry is the outcome
\* of the attempt received last for that URL.
C17_NoDeduplication ==
    /\ [](fetch_lastmod =>
            /\ \A i \in DOMAIN future_to_url : future_to_url[i] = urls[i]
            /\ httpGets = Cardinality(Futures \ InState("PENDING"))
            /\ Returned =>
                  /\ httpGets = Len(urls)
                  /\ \A u \in Range(urls) :
                        /\ Cardinality(AttemptsFor(u)) = Cardinality(Occurrences(u))
                        /\ AttemptsFor(u) \subseteq InState("FINISHED")
                        /\ writer[u] \in AttemptsFor(u)
                        /\ lastmod_dates[u] = AttemptDate(writer[u]))
    /\ [][ \A i \in Futures :
              (fetch_lastmod /\ Receives(i)) =>
                  /\ lastmod_dates'[future_to_url[i]] = AttemptDate(i)
                  /\ writer'[future_to_url[i]] = i ]_vars

\* a URL occurs twice, its two attempts end differently, the dict holds one
C17_Witness ==
    /\ Returned
    /\ fetch_lastmod
    /\ \E i, j \in Futures :
          /\ i # j
          /\ future_to_url[i] = future_to_url[j]
          /\ AttemptDate(i) # AttemptDate(j)
          /\ AttemptDate(i) # today
          /\ writer[future_to_url[i]] = i

\* C18 (progress reporting): during an enabled run a report has been emitted
\* for every count reached so far that is a multiple of 50 or the total,
\* whether the completing task succeeded or was absorbed as a failure, and
\* the recorded results are those of the attempts, report or not.
C18_ProgressReported ==
    fetch_lastmod =>
        /\ \A n \in 1..completed :
              (n % ProgressEvery = 0 \/ n = total) => n \in Range(reports)
        /\ \A u \in DOMAIN lastmod_dates : lastmod_dates[u] = AttemptDate(writer[u])

(***************************************************************************)
(* Properties of organize_urls (checked under OrganizeSpec).               *)
(***************************************************************************)
\* positions of category c's list that hold URL u
EntriesOf(c, u) == {k \in DOMAIN categories[c] : categories[c][k][1] = u}

\* C19: after organize_urls on a fresh reorganizer every occurrence of a URL
\* in the input is in exactly one of the six category lists (the lists that
\* hold the URL are one list, and it holds the URL as often as the input
\* does), every entry pairs its URL with the date the resolved dict holds for
\* it, and the lengths of the six lists add up to the length of the input.
C19_EveryUrlOrganizedOnce ==
    pc = "organized" =>
        /\ DOMAIN categories = CategoryNames
        /\ organized = Len(urls)
        /\ \A u \in Range(urls) :
              \E c \in CategoryNames :
                  /\ Cardinality(EntriesOf(c, u)) = Cardinality(Occurrences(u))
                  /\ \A d \in CategoryNames \ {c} : EntriesOf(d, u) = {}
        /\ \A c \in CategoryNames : \A k \in DOMAIN categories[c] :
              /\ categories[c][k][1] \in Range(urls)
              /\ categories[c][k][2] = lastmod_dates[categories[c][k][1]]

C19_Witness ==
    /\ pc = "organized"
    /\ HasDuplicates
    /\ Len(urls) = 3
    /\ Len(categories["pages"]) = 2
    /\ Len(categories["blog"]) = 1
    /\ categories["pages"][1][2] # today

====
